---------------------------- MODULE Spec2Model ----------------------------
(***************************************************************************)
(* FastGET (src/fastget/client.py): a client that issues many HTTP GETs    *)
(* through a ProcessPoolExecutor, each worker running one chunk of         *)
(* requests concurrently with asyncio/aiohttp, and that yields the         *)
(* responses from a generator, get().                                      *)
(*                                                                         *)
(* One FastGET instance is modelled, with up to two generator objects      *)
(* obtained from its get() (Streams).  A generator runs only while a       *)
(* caller thread is inside next() on it; `inNext` holds those generators,  *)
(* and `threads` is the number of caller threads that use the instance.    *)
(* The completion callbacks of the futures run in the executor's own       *)
(* thread and interleave freely with the generators.  A generator step is  *)
(* one statement of get(); races inside a statement are not modelled.      *)
(*                                                                         *)
(* get() and __exit__ read the module globals `logger` and `level`, which  *)
(* the module never binds (line 38 binds a local of __init__): as written, *)
(* get() raises NameError at its first log call.  `module_globals` holds   *)
(* the names that are bound; every specification starts from the module as *)
(* written and from the module with `logger` bound, where the log calls do *)
(* nothing.                                                                *)
(***************************************************************************)
EXTENDS Integers, Sequences, FiniteSets

(* ---------------------------- bounds ----------------------------------- *)
\* longest input (ids_and_urls) explored
MaxReqs == 3
\* largest explicit value of single_submit_size, pool_submit_size, queue_max_size
MaxArg == 2
\* largest explicit num_workers
MaxWorkers == 2

(* ------------------------- program constants --------------------------- *)
NUM_CPUS == 1
SINGLE_SUBMIT_SIZE == 5000
POOL_SUBMIT_SIZE == 50000
QUEUE_MAX_SIZE == 100000

Streams == {1, 2}
Other(s) == 3 - s

\* The endpoints of the test suite, one url each.
Urls == {"ok200", "ok500", "badjson", "wrong_headers", "timeout", "exception", "down"}

VARIABLES
    module_globals, \* which of the names `logger`, `level` the module has bound
    scope,      \* the with statement on the instance: "unscoped", "entered",
                \* "exited", or "exit_raised" when __exit__ raised
    args,       \* the constructor's arguments, as passed
    input,      \* ids_and_urls: request i is (i, input[i])
    responses,  \* self.responses
    total_processed_requests,
    futures,    \* every future submitted, in submission order
    pc,         \* per generator: where it stands
    exc,        \* per generator: the exception it ended with, "none" if none
    urls_in_queue,
    pos,        \* per generator: items its input iterator has produced
    poolLeft,   \* per generator: items the current pool chunk may still produce
    drainLeft,  \* per generator: iterations left of range(len(self.responses))
    yielded,    \* per generator: what it has yielded, in order
    inNext,     \* the generators a caller thread is inside next() of
    threads,    \* the caller threads that use the instance
    startedInUse \* per generator: the other one was in progress when it started

vars == <<module_globals, scope, args, input, responses, total_processed_requests, futures, pc, exc,
          urls_in_queue, pos, poolLeft, drainLeft, yielded, inNext, threads,
          startedInUse>>

(* --------------------------- __init__ ---------------------------------- *)
\* Python's `x or default`: 0 is falsy, every other integer is kept.
OrDefault(x, default) == IF x = 0 THEN default ELSE x

num_workers == OrDefault(args.num_workers, NUM_CPUS)
single_submit_size == OrDefault(args.single_submit_size, SINGLE_SUBMIT_SIZE)
pool_submit_size == OrDefault(args.pool_submit_size, POOL_SUBMIT_SIZE)
queue_max_size == OrDefault(args.queue_max_size, QUEUE_MAX_SIZE)

Min(a, b) == IF a < b THEN a ELSE b

(* --------------------------- Requester --------------------------------- *)
\* What the HTTP transport does with a url (the servers of tests/test_client.py).
\*   raises_on_get: session.get() itself raises (no connection, server
\*                  disconnected, timeout);
\*   json_ok:       response.json() returns the parsed body.
Transport(url) ==
    CASE url = "ok200" -> [raises_on_get |-> FALSE, status |-> 200, json_ok |-> TRUE, body |-> "status_ok", error |-> "none"]
      [] url = "ok500" -> [raises_on_get |-> FALSE, status |-> 500, json_ok |-> TRUE, body |-> "status_ko", error |-> "none"]
      [] url = "badjson" -> [raises_on_get |-> FALSE, status |-> 200, json_ok |-> FALSE, body |-> "none", error |-> "ContentTypeError"]
      [] url = "wrong_headers" -> [raises_on_get |-> TRUE, status |-> 0, json_ok |-> FALSE, body |-> "none", error |-> "ClientResponseError"]
      [] url = "timeout" -> [raises_on_get |-> TRUE, status |-> 0, json_ok |-> FALSE, body |-> "none", error |-> "TimeoutError"]
      [] url = "exception" -> [raises_on_get |-> TRUE, status |-> 0, json_ok |-> FALSE, body |-> "none", error |-> "ServerDisconnectedError"]
      [] OTHER -> [raises_on_get |-> TRUE, status |-> 0, json_ok |-> FALSE, body |-> "none", error |-> "ClientConnectorError"]

\* Requester._make_request_async: the tuple (id_, response_json), or the
\* exception that leaves the coroutine.  An exception of session.get() is
\* outside the try; one of response.json() is logged and then the return
\* reads response_json, which was never assigned.
make_request_async(id_, url) ==
    LET t == Transport(url) IN
    IF t.raises_on_get THEN [raised |-> TRUE, exception |-> t.error]
    ELSE IF t.json_ok THEN [raised |-> FALSE, value |-> [id |-> id_, data |-> t.body]]
    ELSE [raised |-> TRUE, exception |-> "UnboundLocalError"]

RequestRaises(i) == make_request_async(i, input[i]).raised

(* ----------------------------- futures --------------------------------- *)
\* A future: the generator whose executor holds it, the requests of its chunk
\* (positions of the input, which are the request ids), the requests whose
\* coroutine has ended, and "pending", "finished_ok" or "finished_exc".
NewFuture(s, first, k) ==
    [sid |-> s, reqs |-> [j \in 1..k |-> first + j - 1], resolved |-> {}, state |-> "pending"]

ReqSet(f) == {f.reqs[j] : j \in DOMAIN f.reqs}

\* ProcessPoolExecutor(max_workers): the work items are taken in submission
\* order, at most num_workers at a time.
IsRunning(k) ==
    /\ futures[k].state = "pending"
    /\ Cardinality({j \in 1..(k - 1) : futures[j].sid = futures[k].sid
                                       /\ futures[j].state = "pending"}) < num_workers

\* Requester.run: the list asyncio.gather returns, in the order of the chunk.
\* owner is not part of the tuple: it records whose request it answers.
RunResults(f) ==
    [j \in DOMAIN f.reqs |->
        [id |-> f.reqs[j],
         data |-> make_request_async(f.reqs[j], input[f.reqs[j]]).value.data,
         owner |-> f.sid]]

\* One request of a running chunk ends: _make_request_async returns or raises.
ResolveRequest(k, i) ==
    /\ IsRunning(k)
    /\ i \in ReqSet(futures[k]) \ futures[k].resolved
    /\ \A j \in futures[k].resolved : ~RequestRaises(j)
    /\ futures' = [futures EXCEPT ![k].resolved = @ \cup {i}]
    /\ UNCHANGED <<module_globals, scope, args, input, responses, total_processed_requests, pc, exc,
                   urls_in_queue, pos, poolLeft, drainLeft, yielded, inNext,
                   threads, startedInUse>>

\* _future_done_callback, run when the future ends.  asyncio.gather raises the
\* first exception of a request at once; future.result() then raises inside
\* the callback, where concurrent.futures logs it and goes on.
\* A callback that extends the buffer with the results a chunk has so far.
future_done_callback_Partial(k) ==
    IF \E i \in futures[k].resolved : RequestRaises(i)
    THEN /\ futures' = [futures EXCEPT ![k].state = "finished_exc"]
         /\ UNCHANGED responses
    ELSE LET f == futures[k]
             so_far == SelectSeq(f.reqs, LAMBDA i : i \in f.resolved)
         IN  /\ futures' = [futures EXCEPT ![k].state = "finished_ok"]
             /\ responses' = responses \o RunResults([f EXCEPT !.reqs = so_far])

future_done_callback(k) ==
    IF \E i \in futures[k].resolved : RequestRaises(i)
    THEN /\ futures' = [futures EXCEPT ![k].state = "finished_exc"]
         /\ UNCHANGED responses
    ELSE /\ futures[k].resolved = ReqSet(futures[k])
         /\ futures' = [futures EXCEPT ![k].state = "finished_ok"]
         /\ responses' = responses \o RunResults(futures[k])

FutureDone(k) ==
    /\ IsRunning(k)
    /\ future_done_callback(k)
    /\ UNCHANGED <<module_globals, scope, args, input, total_processed_requests, pc, exc,
                   urls_in_queue, pos, poolLeft, drainLeft, yielded, inNext,
                   threads, startedInUse>>

(* --------------------------- FastGET.get ------------------------------- *)
Terminal == {"done", "raised", "closed"}

\* The guard without its second operand: only the pending buffer is looked at.
InUse_BufferOnly == responses # <<>>

\* The guard of get(): `if self.responses or self.total_processed_requests`.
InUse == responses # <<>> \/ total_processed_requests # 0

\* A caller thread is free to call next() or close() on a generator.
CallerFree == Cardinality(inNext) < threads

\* A generator can take a step: a caller is inside next() on it, or it is
\* suspended at a yield and a free caller calls next() on it.
CanRun(s) ==
    \/ s \in inNext
    \/ CallerFree /\ pc[s] \in {"drain", "final_while"}

\* The first next() on a generator: the guard, the first log call, then the
\* executor is created.
Start(s) ==
    /\ CallerFree
    /\ pc[s] = "new"
    /\ s = 2 => pc[1] # "new"
    /\ startedInUse' = [startedInUse EXCEPT ![s] = pc[Other(s)] \notin Terminal \cup {"new"}]
    /\ IF InUse
       THEN /\ pc' = [pc EXCEPT ![s] = "raised"]
            /\ exc' = [exc EXCEPT ![s] = "usage"]
            /\ UNCHANGED <<urls_in_queue, inNext>>
       ELSE IF "logger" \notin module_globals
       THEN /\ pc' = [pc EXCEPT ![s] = "raised"]
            /\ exc' = [exc EXCEPT ![s] = "NameError"]
            /\ UNCHANGED <<urls_in_queue, inNext>>
       ELSE IF num_workers <= 0
       THEN /\ pc' = [pc EXCEPT ![s] = "raised"]
            /\ exc' = [exc EXCEPT ![s] = "ValueError"]
            /\ urls_in_queue' = [urls_in_queue EXCEPT ![s] = 0]
            /\ UNCHANGED inNext
       ELSE /\ pc' = [pc EXCEPT ![s] = "for_pool"]
            /\ urls_in_queue' = [urls_in_queue EXCEPT ![s] = 0]
            /\ inNext' = inNext \cup {s}
            /\ UNCHANGED exc
    /\ UNCHANGED <<module_globals, scope, args, input, threads, responses, total_processed_requests,
                   futures, pos, poolLeft, drainLeft, yielded>>

\* `for urls_chunk in urls_chunks`: _chunker takes the first item of the next
\* pool chunk off the input iterator; the rest of the chunk is an islice that
\* reads the iterator only when it is consumed.  pos stays before the first
\* item while the chunk is to be submitted, and moves past it when the chunk
\* is not consumed (urls_in_queue >= queue_max_size).
ForPool(s) ==
    /\ s \in inNext
    /\ pc[s] = "for_pool"
    /\ IF pos[s] = Len(input)
       THEN /\ pc' = [pc EXCEPT ![s] = "final_while"]
            /\ UNCHANGED <<pos, poolLeft, exc>>
       ELSE IF pool_submit_size - 1 < 0
       THEN /\ pc' = [pc EXCEPT ![s] = "shutdown"]
            /\ exc' = [exc EXCEPT ![s] = "ValueError"]
            /\ pos' = [pos EXCEPT ![s] = @ + 1]
            /\ UNCHANGED poolLeft
       ELSE IF urls_in_queue[s] < queue_max_size
       THEN /\ pc' = [pc EXCEPT ![s] = "for_single"]
            /\ poolLeft' = [poolLeft EXCEPT ![s] = pool_submit_size]
            /\ UNCHANGED <<pos, exc>>
       ELSE /\ pc' = [pc EXCEPT ![s] = "drain_range"]
            /\ pos' = [pos EXCEPT ![s] = @ + 1]
            /\ UNCHANGED <<poolLeft, exc>>
    /\ UNCHANGED <<module_globals, scope, args, input, responses, total_processed_requests, futures,
                   urls_in_queue, drainLeft, yielded, inNext, threads,
                   startedInUse>>

\* A chunk that takes every item its iterator still has.
ChunkTake_Greedy(avail, size) == avail

\* The length of one chunk of _chunker on an iterator with avail >= 1 items
\* left: `first`, then islice(iterator, size - 1).
ChunkTake(avail, size) == 1 + Min(size - 1, avail - 1)

\* _chunker(iterable, size) with every chunk consumed before the next one is
\* asked for: the chunks, in order.
RECURSIVE chunker(_, _)
chunker(iterable, size) ==
    IF iterable = <<>> THEN <<>>
    ELSE LET n == ChunkTake(Len(iterable), size) IN
         <<SubSeq(iterable, 1, n)>> \o chunker(SubSeq(iterable, n + 1, Len(iterable)), size)

\* How many items the next single chunk holds: the first one and up to
\* single_submit_size - 1 more, while the pool chunk and the input last.
ChunkLen(s) == ChunkTake(Min(poolLeft[s], Len(input) - pos[s]), single_submit_size)

\* `for chunk in chunks`: one single chunk is read and submitted.
SubmitSingle(s) ==
    /\ s \in inNext
    /\ pc[s] = "for_single"
    /\ IF single_submit_size - 1 < 0
       THEN /\ pc' = [pc EXCEPT ![s] = "shutdown"]
            /\ exc' = [exc EXCEPT ![s] = "ValueError"]
            /\ pos' = [pos EXCEPT ![s] = @ + 1]
            /\ UNCHANGED <<futures, urls_in_queue, poolLeft>>
       ELSE LET k == ChunkLen(s) IN
            /\ futures' = Append(futures, NewFuture(s, pos[s] + 1, k))
            /\ urls_in_queue' = [urls_in_queue EXCEPT ![s] = @ + k]
            /\ pos' = [pos EXCEPT ![s] = @ + k]
            /\ poolLeft' = [poolLeft EXCEPT ![s] = @ - k]
            /\ pc' = [pc EXCEPT ![s] =
                        IF poolLeft[s] - k = 0 \/ pos[s] + k = Len(input)
                        THEN "drain_range" ELSE "for_single"]
            /\ UNCHANGED exc
    /\ UNCHANGED <<module_globals, scope, args, input, responses, total_processed_requests,
                   drainLeft, yielded, inNext, threads, startedInUse>>

\* `range(len(self.responses))` is evaluated once, before the pops.
DrainRange(s) ==
    /\ s \in inNext
    /\ pc[s] = "drain_range"
    /\ drainLeft' = [drainLeft EXCEPT ![s] = Len(responses)]
    /\ pc' = [pc EXCEPT ![s] = "drain"]
    /\ UNCHANGED <<module_globals, scope, args, input, responses, total_processed_requests, futures,
                   exc, urls_in_queue, pos, poolLeft, yielded, inNext,
                   threads, startedInUse>>

\* list.pop(): the last item.
PopIndex(buf) == Len(buf)

\* A pop that returns the item and leaves it in the list.
RemoveAt_Peek(buf, i) == buf

RemoveAt(buf, i) == [j \in 1..(Len(buf) - 1) |-> IF j < i THEN buf[j] ELSE buf[j + 1]]

\* The two counter updates and `yield self.responses.pop()`; pop raises
\* IndexError on an empty list, after the counters were updated.
PopAndYield(s) ==
    /\ urls_in_queue' = [urls_in_queue EXCEPT ![s] = @ - 1]
    /\ total_processed_requests' = total_processed_requests + 1
    /\ IF responses = <<>>
       THEN /\ pc' = [pc EXCEPT ![s] = "shutdown"]
            /\ exc' = [exc EXCEPT ![s] = "IndexError"]
            /\ inNext' = inNext \cup {s}
            /\ UNCHANGED <<responses, yielded>>
       ELSE /\ yielded' = [yielded EXCEPT ![s] = Append(@, responses[PopIndex(responses)])]
            /\ responses' = RemoveAt(responses, PopIndex(responses))
            /\ inNext' = inNext \ {s}
            /\ UNCHANGED <<pc, exc>>

\* One iteration of `for _ in range(len(self.responses))`, or its end.
Drain(s) ==
    /\ CanRun(s)
    /\ pc[s] = "drain"
    /\ IF drainLeft[s] = 0
       THEN /\ pc' = [pc EXCEPT ![s] = "for_pool"]
            /\ inNext' = inNext \cup {s}
            /\ UNCHANGED <<responses, total_processed_requests, exc,
                           urls_in_queue, drainLeft, yielded>>
       ELSE /\ drainLeft' = [drainLeft EXCEPT ![s] = @ - 1]
            /\ PopAndYield(s)
    /\ UNCHANGED <<module_globals, scope, args, input, threads, futures, pos, poolLeft, startedInUse>>

\* `while urls_in_queue:` with its body, and the check that follows the loop.
\* With urls_in_queue non-zero and nothing pending the loop spins, which
\* changes nothing.
FinalWhile(s) ==
    /\ CanRun(s)
    /\ pc[s] = "final_while"
    /\ IF urls_in_queue[s] # 0
       THEN /\ responses # <<>>
            /\ PopAndYield(s)
       ELSE /\ pc' = [pc EXCEPT ![s] = "shutdown"]
            /\ exc' = [exc EXCEPT ![s] = IF responses # <<>> THEN "fault" ELSE "none"]
            /\ inNext' = inNext \cup {s}
            /\ UNCHANGED <<responses, total_processed_requests, urls_in_queue, yielded>>
    /\ UNCHANGED <<module_globals, scope, args, input, threads, futures, pos, poolLeft, drainLeft,
                   startedInUse>>

\* The end of `with ProcessPoolExecutor(...)`: shutdown(wait=True) returns once
\* every future of this executor has ended; then, unless an exception is on
\* its way, total_processed_requests is reset.
\* An end of the generator that resets the counter on every path.
Shutdown_AlwaysReset(s) ==
    /\ s \in inNext
    /\ pc[s] = "shutdown"
    /\ \A k \in DOMAIN futures : futures[k].sid = s => futures[k].state # "pending"
    /\ pc' = [pc EXCEPT ![s] = CASE exc[s] = "none" -> "done"
                                 [] exc[s] = "GeneratorExit" -> "closed"
                                 [] OTHER -> "raised"]
    /\ total_processed_requests' = 0
    /\ inNext' = inNext \ {s}
    /\ UNCHANGED <<module_globals, scope, args, input, threads, responses, futures, exc,
                   urls_in_queue, pos, poolLeft, drainLeft, yielded, startedInUse>>

Shutdown(s) ==
    /\ s \in inNext
    /\ pc[s] = "shutdown"
    /\ \A k \in DOMAIN futures : futures[k].sid = s => futures[k].state # "pending"
    /\ pc' = [pc EXCEPT ![s] = CASE exc[s] = "none" -> "done"
                                 [] exc[s] = "GeneratorExit" -> "closed"
                                 [] OTHER -> "raised"]
    /\ total_processed_requests' = IF exc[s] = "none" THEN 0 ELSE total_processed_requests
    /\ inNext' = inNext \ {s}
    /\ UNCHANGED <<module_globals, scope, args, input, threads, responses, futures, exc,
                   urls_in_queue, pos, poolLeft, drainLeft, yielded, startedInUse>>

\* The caller drops a generator that is suspended at a yield: close() raises
\* GeneratorExit there, which leaves through the with statement.
Abandon(s) ==
    /\ CallerFree
    /\ s \notin inNext
    /\ pc[s] \in {"drain", "final_while"}
    /\ pc' = [pc EXCEPT ![s] = "shutdown"]
    /\ exc' = [exc EXCEPT ![s] = "GeneratorExit"]
    /\ inNext' = inNext \cup {s}
    /\ UNCHANGED <<module_globals, scope, args, input, threads, responses, total_processed_requests,
                   futures, urls_in_queue, pos, poolLeft, drainLeft, yielded,
                   startedInUse>>

(* ---------------------- __enter__ / __exit__ ---------------------------- *)
\* The executor of generator s exists and has not been shut down: it is
\* created by the with statement inside get() and released at its end.
PoolOpen(s) == pc[s] \in {"for_pool", "for_single", "drain_range", "drain",
                          "final_while", "shutdown"}

\* __exit__, when the caller leaves `with FastGET() as client:` by any path.
\* Its body is `logger.setLevel(level)`; it touches no generator and no
\* executor.
ExitScope ==
    /\ scope = "entered"
    /\ CallerFree
    /\ scope' = IF {"logger", "level"} \subseteq module_globals
                THEN "exited" ELSE "exit_raised"
    /\ UNCHANGED <<module_globals, args, input, responses,
                   total_processed_requests, futures, pc, exc, urls_in_queue,
                   pos, poolLeft, drainLeft, yielded, inNext, threads,
                   startedInUse>>

(* -------------------------- specifications ----------------------------- *)
InputSeqs(U) == UNION {[1..n -> U] : n \in 0..MaxReqs}

PositiveArgs ==
    [num_workers : 1..MaxWorkers, single_submit_size : 1..MaxArg,
     pool_submit_size : 1..MaxArg, queue_max_size : 1..MaxArg]

\* The arguments of the constructor, those it takes for "use the default" (0)
\* and negative ones included.
AnyArgs ==
    [num_workers : {1}, single_submit_size : -1..MaxArg,
     pool_submit_size : -1..MaxArg, queue_max_size : -1..MaxArg]

\* The state __init__ leaves, with no generator started.
InitState ==
    /\ responses = <<>>
    /\ total_processed_requests = 0
    /\ futures = <<>>
    /\ pc = [s \in Streams |-> "new"]
    /\ exc = [s \in Streams |-> "none"]
    /\ urls_in_queue = [s \in Streams |-> 0]
    /\ pos = [s \in Streams |-> 0]
    /\ poolLeft = [s \in Streams |-> 0]
    /\ drainLeft = [s \in Streams |-> 0]
    /\ yielded = [s \in Streams |-> <<>>]
    /\ inNext = {}
    /\ startedInUse = [s \in Streams |-> FALSE]

\* Every positive configuration up to the bounds; every input up to MaxReqs
\* of requests that are answered and requests that cannot connect.
Init ==
    /\ args \in PositiveArgs
    /\ input \in InputSeqs({"ok200", "down"})
    /\ threads = 1
    /\ module_globals \in {{}, {"logger"}}
    /\ scope = "unscoped"
    /\ InitState

\* Every endpoint, under one worker and chunks of one or two requests.
InitTransport ==
    /\ args \in [num_workers : {1}, single_submit_size : {1, 2},
                 pool_submit_size : {2}, queue_max_size : {2}]
    /\ input \in InputSeqs(Urls)
    /\ threads = 1
    /\ module_globals \in {{}, {"logger"}}
    /\ scope = "unscoped"
    /\ InitState

\* Every configuration, valid or not, on inputs that are all answered.
InitConfig ==
    /\ args \in AnyArgs
    /\ input \in InputSeqs({"ok200"})
    /\ threads = 1
    /\ module_globals \in {{}, {"logger"}}
    /\ scope = "unscoped"
    /\ InitState

\* Two caller threads on the instance, each with its own generator.
InitThreads ==
    /\ args \in [num_workers : {1}, single_submit_size : {1},
                 pool_submit_size : {1, 2}, queue_max_size : {2}]
    /\ input \in {<<>>, <<"ok200">>, <<"ok200", "ok200">>}
    /\ threads = 2
    /\ module_globals \in {{}, {"logger"}}
    /\ scope = "unscoped"
    /\ InitState

\* The instance used in a with statement (after __enter__, which returns
\* self), on inputs that are all answered.
InitScope ==
    /\ args \in PositiveArgs
    /\ input \in InputSeqs({"ok200"})
    /\ threads = 1
    /\ module_globals \in SUBSET {"logger", "level"}
    /\ scope = "entered"
    /\ InitState

Worker ==
    \E k \in DOMAIN futures :
        \/ FutureDone(k)
        \/ \E i \in 1..Len(input) : ResolveRequest(k, i)

Generator(s) ==
    \/ ForPool(s)
    \/ SubmitSingle(s)
    \/ DrainRange(s)
    \/ Drain(s)
    \/ FinalWhile(s)
    \/ Shutdown(s)
    \/ Abandon(s)

\* A generator is started only when the other one is not in progress.
StartAlone(s) ==
    /\ pc[Other(s)] \in Terminal \cup {"new"}
    /\ Start(s)

\* Any use of the instance, two overlapping generators included.
Next ==
    \/ \E s \in Streams : Start(s)
    \/ \E s \in Streams : Generator(s)
    \/ Worker

\* One generator at a time.
NextAlone ==
    \/ \E s \in Streams : StartAlone(s)
    \/ \E s \in Streams : Generator(s)
    \/ Worker

\* A generator is started inside the with statement.
StartInScope(s) ==
    /\ scope = "entered"
    /\ StartAlone(s)

\* The scoped form: generators started inside the scope, which the caller
\* may leave at any point where it has the control.
NextScope ==
    \/ \E s \in Streams : StartInScope(s)
    \/ \E s \in Streams : Generator(s)
    \/ Worker
    \/ ExitScope

Spec == Init /\ [][Next]_vars

SpecTransport == InitTransport /\ [][NextAlone]_vars

SpecConfig == InitConfig /\ [][NextAlone]_vars

SpecThreads == InitThreads /\ [][Next]_vars

SpecScope == InitScope /\ [][NextScope]_vars

(* ------------------------------ claims --------------------------------- *)
Ids(q) == {q[j].id : j \in DOMAIN q}

\* The tuples of a sequence of responses, without the record of their owner.
Tuples(q) == {[id |-> q[j].id, data |-> q[j].data] : j \in DOMAIN q}

\* The transport answers the request with a well-formed response whose body parses.
Answered(i) == ~Transport(input[i]).raises_on_get /\ Transport(input[i]).json_ok

\* Only generator 1 has been used.
SingleStream == pc[2] = "new"

\* The responses for request i that generator s holds or has handed out.
ResponsesFor(s, i) ==
    {responses[j] : j \in {n \in DOMAIN responses : responses[n].id = i /\ responses[n].owner = s}}
    \cup {yielded[s][j] : j \in {n \in DOMAIN yielded[s] : yielded[s][n].id = i}}

HasStatus(r, code) == "status_code" \in DOMAIN r /\ r.status_code = code

\* C1: a fully consumed get() on a positive configuration yields exactly one
\* response for each input id: as many responses as requests, and every id.
C1_ExactlyOncePerRequest ==
    (SingleStream /\ pc[1] = "done") =>
        /\ Len(yielded[1]) = Len(input)
        /\ Ids(yielded[1]) = 1..Len(input)

\* C2: the requests submitted and not yet yielded never exceed queue_max_size.
C2_QueueBounded ==
    SingleStream => urls_in_queue[1] <= queue_max_size

\* C3: a get() started while another one is in progress on the same instance
\* ends with the usage error, and no generator yields a response to a request
\* of the other one.
C3_OverlapRejected ==
    \A s \in Streams :
        /\ startedInUse[s] => (pc[s] = "raised" /\ exc[s] = "usage")
        /\ \A j \in DOMAIN yielded[s] : yielded[s][j].owner = s

\* C4: a get() started while the pending buffer is non-empty or
\* total_processed_requests is non-zero raises the usage error, submits
\* nothing and leaves the buffer and the counters as they were.
C4_UsageErrorLeavesState ==
    [][\A s \in Streams :
        (pc[s] = "new" /\ pc'[s] # "new"
            /\ (responses # <<>> \/ total_processed_requests # 0)) =>
        (/\ pc'[s] = "raised"
         /\ exc'[s] = "usage"
         /\ futures' = futures
         /\ responses' = responses
         /\ total_processed_requests' = total_processed_requests
         /\ urls_in_queue' = urls_in_queue
         /\ yielded' = yielded)]_vars

\* C4's case: a get() has ended with the usage error while the instance held
\* unconsumed state.
C4_Witness ==
    \E s \in Streams :
        /\ pc[s] = "raised"
        /\ exc[s] = "usage"
        /\ responses # <<>> \/ total_processed_requests # 0

\* Two responses come from the same submitted chunk.
SameChunk(r1, r2) ==
    /\ r1.owner = r2.owner
    /\ \E k \in DOMAIN futures :
        /\ futures[k].sid = r1.owner
        /\ {r1.id, r2.id} \subseteq ReqSet(futures[k])

\* C5: responses are yielded in the order of the completion callbacks: the
\* buffer holds them in that order, so each response yielded belongs to the
\* chunk of the oldest response pending.
C5_CompletionOrder ==
    [][(SingleStream /\ Len(yielded'[1]) > Len(yielded[1])) =>
        SameChunk(yielded'[1][Len(yielded'[1])], responses[1])]_vars

\* C6: no chunk ends with an exception, and once a chunk has ended every
\* request of it has a response, with status_code 500 if the request failed.
C6_FailuresBecomeResponses ==
    \A k \in DOMAIN futures :
        futures[k].state # "pending" =>
            /\ futures[k].state = "finished_ok"
            /\ \A i \in ReqSet(futures[k]) :
                \E r \in ResponsesFor(futures[k].sid, i) : Answered(i) \/ HasStatus(r, 500)

\* The generator is in its final loop with requests outstanding, nothing
\* pending and no future left that could deliver a response.
WaitsForever(s) ==
    /\ pc[s] = "final_while"
    /\ urls_in_queue[s] # 0
    /\ responses = <<>>
    /\ \A k \in DOMAIN futures : futures[k].state # "pending"

\* C7: a request to an endpoint that never responds, once timed out, has a
\* response with status_code 500 that marks the timeout, the other requests
\* of its chunk have theirs, and the stream is never left waiting forever.
C7_TimeoutResolves ==
    /\ \A k \in DOMAIN futures :
        \A i \in futures[k].resolved :
            (input[i] = "timeout" /\ futures[k].state # "pending") =>
                /\ \E r \in ResponsesFor(futures[k].sid, i) :
                    HasStatus(r, 500) /\ r.data = "TimeoutError"
                /\ \A j \in ReqSet(futures[k]) : ResponsesFor(futures[k].sid, j) # {}
    /\ SingleStream => ~WaitsForever(1)

\* C8: the response yielded for an answered request carries the status the
\* server returned and the parsed body.
C8_StatusAndBody ==
    \A s \in Streams : \A j \in DOMAIN yielded[s] :
        LET r == yielded[s][j] IN
        Answered(r.id) =>
            /\ HasStatus(r, Transport(input[r.id]).status)
            /\ r.data = Transport(input[r.id]).body

\* C9: after a fully drained get() the instance is unused again, a new get()
\* on it is accepted, and on the same input it yields the same set of
\* responses.
C9_RerunSameSet ==
    (pc[1] = "done" /\ ~startedInUse[2]) =>
        /\ pc[2] = "new" => (responses = <<>> /\ total_processed_requests = 0)
        /\ exc[2] # "usage"
        /\ pc[2] = "done" => Tuples(yielded[1]) = Tuples(yielded[2])

\* C10: with a non-positive single_submit_size, pool_submit_size or
\* queue_max_size nothing is ever submitted and no get() completes.
C10_NonPositiveRejected ==
    (\/ args.single_submit_size <= 0
     \/ args.pool_submit_size <= 0
     \/ args.queue_max_size <= 0) =>
        /\ futures = <<>>
        /\ \A s \in Streams : pc[s] # "done"

\* C11: once the with statement on the instance has been left, by whatever
\* path, __exit__ has not raised and no worker pool is open.
C11_ScopeReleasesPool ==
    scope \in {"exited", "exit_raised"} =>
        /\ scope = "exited"
        /\ \A s \in Streams : ~PoolOpen(s)

\* C11 with every global bound: the exit alone, which then does not raise.
C11_PoolClosedAfterExit ==
    scope = "exited" => \A s \in Streams : ~PoolOpen(s)

\* How often request i has been submitted by generator s.
TimesSubmitted(s, i) ==
    Cardinality({k \in DOMAIN futures : futures[k].sid = s /\ i \in ReqSet(futures[k])})

\* C12: when a get() has completed, every request of the input has been
\* submitted to the pool exactly once.
C12_SubmittedExactlyOnce ==
    (SingleStream /\ pc[1] = "done") =>
        \A i \in 1..Len(input) : TimesSubmitted(1, i) = 1

RECURSIVE Concat(_)
Concat(chunks) ==
    IF chunks = <<>> THEN <<>> ELSE Head(chunks) \o Concat(Tail(chunks))

\* The chunks of a fully consumed _chunker are a partition of the input in
\* order, each of 1..size items and each but the last of size items.
ChunksWellFormed(iterable, size) ==
    LET chunks == chunker(iterable, size) IN
    /\ Concat(chunks) = iterable
    /\ \A c \in DOMAIN chunks : Len(chunks[c]) \in 1..size
    /\ \A c \in DOMAIN chunks : c < Len(chunks) => Len(chunks[c]) = size
    /\ iterable = <<>> => chunks = <<>>

\* C13: _chunker on the input with pool_submit_size, and again on each pool
\* chunk with single_submit_size, yields well-formed chunks; and every chunk
\* get() hands to a worker has between 1 and single_submit_size requests.
C13_ChunkerPartitions ==
    /\ ChunksWellFormed(input, pool_submit_size)
    /\ \A c \in DOMAIN chunker(input, pool_submit_size) :
        ChunksWellFormed(chunker(input, pool_submit_size)[c], single_submit_size)
    /\ \A k \in DOMAIN futures : Len(futures[k].reqs) \in 1..single_submit_size

\* C13's case: an input that does not divide into the chunk size, so that the
\* last pool chunk is short, and a chunk of it has been handed to a worker.
C13_Witness ==
    /\ Len(input) > pool_submit_size
    /\ Len(input) % pool_submit_size # 0
    /\ Len(chunker(input, pool_submit_size)) >= 2
    /\ \E k \in DOMAIN futures : futures[k].reqs[1] > pool_submit_size

\* The requests of generator s that are in a future still pending.
InFlight(s) ==
    Cardinality({p \in (DOMAIN futures) \X (1..Len(input)) :
                    /\ futures[p[1]].sid = s
                    /\ futures[p[1]].state = "pending"
                    /\ p[2] \in ReqSet(futures[p[1]])})

\* C14: in the final loop, once no future of the generator is pending, the
\* responses in the buffer are as many as urls_in_queue, so that yielding
\* them brings urls_in_queue to 0 and the generator finishes.
C14_FinalDrainReachesZero ==
    (SingleStream /\ pc[1] = "final_while" /\ InFlight(1) = 0) =>
        urls_in_queue[1] = Len(responses)

\* C15: in a single stream the final loop never ends with a response left in
\* the buffer, and "We should have returned everything!" is never raised.
C15_NoConsistencyFault ==
    SingleStream =>
        /\ exc[1] # "fault"
        /\ (pc[1] = "final_while" /\ urls_in_queue[1] = 0) => responses = <<>>

\* C15's case: the final loop has yielded a response and has then ended with
\* urls_in_queue = 0.
C15_Witness ==
    /\ SingleStream
    /\ pc[1] = "shutdown"
    /\ exc[1] = "none"
    /\ urls_in_queue[1] = 0
    /\ Len(yielded[1]) >= 2

\* C16: whenever a response of a chunk is in the buffer or has been yielded,
\* every request of the chunk has resolved and has its response there too.
C16_ChunkVisibleWhole ==
    \A k \in DOMAIN futures :
        (\E i \in ReqSet(futures[k]) : ResponsesFor(futures[k].sid, i) # {}) =>
            /\ futures[k].state = "finished_ok"
            /\ futures[k].resolved = ReqSet(futures[k])
            /\ \A i \in ReqSet(futures[k]) : ResponsesFor(futures[k].sid, i) # {}

\* C16's case: a chunk of two requests has ended and both of its responses
\* are in the buffer, none of them yielded yet.
C16_Witness ==
    \E k \in DOMAIN futures :
        /\ Len(futures[k].reqs) = 2
        /\ futures[k].state = "finished_ok"
        /\ \A i \in ReqSet(futures[k]) : \E j \in DOMAIN responses : responses[j].id = i
        /\ yielded[futures[k].sid] = <<>>

\* C17: a chunk with a failing request, once ended, has had every request
\* resolved and has a response for every request.
C17_FailureKeepsSiblings ==
    \A k \in DOMAIN futures :
        (futures[k].state # "pending" /\ \E i \in ReqSet(futures[k]) : RequestRaises(i)) =>
            /\ futures[k].resolved = ReqSet(futures[k])
            /\ \A i \in ReqSet(futures[k]) : ResponsesFor(futures[k].sid, i) # {}

\* C18: while a single stream runs, urls_in_queue is the requests in flight
\* plus the buffered responses, total_processed_requests is the number of
\* responses yielded, and no pop finds the buffer empty.
C18_Bookkeeping ==
    (SingleStream /\ pc[1] \in {"for_pool", "for_single", "drain_range", "drain", "final_while"}) =>
        /\ urls_in_queue[1] = InFlight(1) + Len(responses)
        /\ total_processed_requests = Len(yielded[1])
        /\ Len(responses) <= urls_in_queue[1]
        /\ exc[1] # "IndexError"

\* C19: once a generator has been closed at a yield, no step changes
\* total_processed_requests, which is at least 1, or empties the buffer, and
\* a get() started afterwards ends with the usage error.
C19_AbandonedStaysInUse ==
    [][\A s \in Streams :
        exc[s] = "GeneratorExit" =>
            /\ total_processed_requests >= 1
            /\ total_processed_requests' = total_processed_requests
            /\ Len(responses') >= Len(responses)
            /\ (pc[Other(s)] = "new" /\ pc'[Other(s)] # "new") =>
                   (pc'[Other(s)] = "raised" /\ exc'[Other(s)] = "usage")]_vars

\* C19's case: generator 1 was closed at a yield and a later get() has ended
\* with the usage error.
C19_Witness ==
    /\ pc[1] = "closed"
    /\ exc[1] = "GeneratorExit"
    /\ pc[2] = "raised"
    /\ exc[2] = "usage"

=============================================================================
